---------------------------- MODULE Spec2Model ----------------------------
(***************************************************************************)
(* Weather ETL pipeline: hourly forecast -> daily mean -> upsert into the   *)
(* table weather_daily.  Three variants of the same pipeline live in the    *)
(* repository: the class-based WeatherETLPipeline.run (oop_weather.py), the *)
(* procedural main (ingest_weather.py) and the scheduler-decorated tasks    *)
(* extract_weather / transform_weather / load_weather (weather_etl_dag.py). *)
(*                                                                          *)
(* Conventions of the model:                                                *)
(*  - a timestamp is a whole number of hours since an epoch; its calendar   *)
(*    date is the number of whole days (df["datetime"].dt.date);            *)
(*  - an hourly temperature is an integer; a mean is the exact rational     *)
(*    sum/count, kept in lowest terms as [num, den] (float rounding is not  *)
(*    modelled);                                                           *)
(*  - the table is a bag of rows, so that a duplicate row would show;       *)
(*  - `table` is what is committed (visible to every session), `txn` is     *)
(*    what the run's connection sees inside its open transaction.           *)
(***************************************************************************)
EXTENDS Integers, Sequences, FiniteSets, Bags, TLC

VARIABLES
    variant,        \* which pipeline variant runs: "oop", "procedural", "dag"
    cities,         \* the configured city list, in iteration order
    pc,             \* position of the run
    i,              \* loop index over cities (1-based)
    raw,            \* the payload fetch_city_weather returned for city i
    all_data,       \* dag: extract_weather's dict, as a sequence of [city, data]
    all_daily,      \* run/main: list of per-city daily frames
    final_df,       \* the batch handed to the load step
    conn,           \* "none", "open", "closed"
    table,          \* committed rows of weather_daily (a bag)
    txn,            \* rows as seen inside the connection's open transaction
    k,              \* index of the next record execute_batch sends
    result,         \* "RUNNING", "COMPLETED", "FAILED"
    rows_written,   \* rows of the committed batch
    responses,      \* history: the response each fetch got, in order
    events,         \* history: the steps of the run, in order
    pre,            \* history: the committed table before the run's load
    failedAt,       \* history: the step whose exception ended the run
    agg_city,       \* aggregator alone: city argument
    agg_data,       \* aggregator alone: data argument
    agg_out,        \* aggregator alone: returned frame
    agg_done,       \* aggregator alone: whether hourly_to_daily has returned
    once,           \* store alone: table after the batch was applied once
    loads           \* store alone: how often the current batch was applied

vars == <<variant, cities, pc, i, raw, all_data, all_daily, final_df, conn,
          table, txn, k, result, rows_written, responses, events, pre,
          failedAt, agg_city, agg_data, agg_out, agg_done, once, loads>>

pipelineVars == <<variant, cities, pc, i, raw, all_data, all_daily, conn, txn,
                  k, result, rows_written, responses, events, pre, failedAt>>
\* the run's variables a load of the store by itself leaves alone
idleVars == <<variant, cities, pc, i, raw, all_data, all_daily, conn, txn, k,
              result, rows_written, responses, events, failedAt>>
aggVars == <<agg_city, agg_data, agg_out, agg_done>>
storeVars == <<once, loads>>

---------------------------------------------------------------------------
(* Bounds of the model *)

\* longest hourly series handed to the aggregator on its own
MaxReadings == 3
\* longest hourly series one fetch of the pipeline returns
MaxHours == 2
\* longest batch handed to the store on its own
MaxBatch == 2
\* how often one batch is loaded in a row
MaxLoads == 2

(* Program constants *)

HoursPerDay == 24
HTTP_OK == 200

CITIES == <<"Accra", "Kumasi", "Takoradi">>

\* hour 22 of day 0 .. hour 1 of day 1: two calendar dates
Timestamps == (HoursPerDay - 2) .. (HoursPerDay + 1)
\* the forecast window starts at the last hour of day 0
FirstHour == HoursPerDay - 1
\* hourly temperatures a reading takes
Temps == {20, 25}

---------------------------------------------------------------------------
(* Helpers *)

RECURSIVE GCD(_, _)
GCD(a, b) == IF b = 0 THEN a ELSE GCD(b, a % b)

\* the exact quotient n/d, d > 0, in lowest terms
Rat(n, d) ==
    LET g == GCD(n, d)
    IN  IF g = 0 THEN [num |-> 0, den |-> 1]
                 ELSE [num |-> n \div g, den |-> d \div g]

RECURSIVE SumSeq(_)
SumSeq(s) == IF s = <<>> THEN 0 ELSE Head(s) + SumSeq(Tail(s))

RECURSIVE Concat(_)
Concat(ss) == IF ss = <<>> THEN <<>> ELSE Head(ss) \o Concat(Tail(ss))

Min(S) == CHOOSE x \in S : \A y \in S : x <= y

RECURSIVE SortedSeq(_)
SortedSeq(S) ==
    IF S = {} THEN <<>>
    ELSE LET m == Min(S) IN <<m>> \o SortedSeq(S \ {m})

SeqsUpTo(S, n) == UNION {[1..m -> S] : m \in 0..n}

Range(s) == {s[j] : j \in DOMAIN s}

---------------------------------------------------------------------------
(* WeatherTransformer.hourly_to_daily / transform_to_daily *)

\* data["hourly"]["time"] and data["hourly"]["temperature_2m"] can be read and
\* zipped into one frame
WellFormed(data) ==
    /\ "hourly" \in DOMAIN data
    /\ Len(data.hourly.time) = Len(data.hourly.temperature_2m)

\* pd.DataFrame({"datetime": ..., "temp": ...})
Frame(data) ==
    [j \in 1..Len(data.hourly.time) |->
        [datetime |-> data.hourly.time[j], temp |-> data.hourly.temperature_2m[j]]]

DateOfHourly(t) == t
\* df["datetime"].dt.date: the timestamp truncated to its day
DateOf(t) == t \div HoursPerDay

\* agg "mean": sum of the group's temperatures over their count
Mean(ts) == Rat(SumSeq(ts), Len(ts))

\* df.groupby("date").agg(temp mean, city first).reset_index(): one row per
\* date present, in ascending date order
hourly_to_daily(city, data) ==
    LET df     == Frame(data)
        dates  == SortedSeq({DateOf(df[j].datetime) : j \in DOMAIN df})
        grp(d) == SelectSeq(df, LAMBDA r : DateOf(r.datetime) = d)
        temps(d) == [j \in 1..Len(grp(d)) |-> grp(d)[j].temp]
    IN  [n \in 1..Len(dates) |->
            [date |-> dates[n], temp |-> Mean(temps(dates[n])), city |-> city]]

\* a payload with parallel arrays
Payload(times, temps) == [hourly |-> [time |-> times, temperature_2m |-> temps]]

AggInputs ==
    UNION {{Payload(ts, vs) : ts \in [1..n -> Timestamps], vs \in [1..n -> Temps]}
           : n \in 0..MaxReadings}

AggInit ==
    /\ agg_city \in Range(CITIES)
    /\ agg_data \in AggInputs
    /\ agg_out = <<>>
    /\ agg_done = FALSE

HourlyToDaily ==
    /\ ~agg_done
    /\ WellFormed(agg_data)
    /\ agg_out' = hourly_to_daily(agg_city, agg_data)
    /\ agg_done' = TRUE
    /\ UNCHANGED <<agg_city, agg_data>>
    /\ UNCHANGED <<pipelineVars, storeVars, final_df, table>>

---------------------------------------------------------------------------
(* WeatherRepository.insert_daily_weather / insert_daily_weather / load_weather *)

\* df[["date", "temp", "city"]].values.tolist(): one (date, temperature, city)
\* parameter tuple per row of the frame
Records(df) ==
    [j \in 1..Len(df) |->
        [date |-> df[j].date, temperature |-> df[j].temp, city |-> df[j].city]]

SameKey(r, rec) == r.date = rec.date /\ r.city = rec.city

\* the unique constraint on (date, city) that ON CONFLICT (date, city) names
UniqueDateCity(tbl) ==
    /\ \A r \in BagToSet(tbl) : CopiesIn(r, tbl) = 1
    /\ \A r1, r2 \in BagToSet(tbl) : SameKey(r1, r2) => r1 = r2

PlainInsert(tbl, rec) == tbl (+) SetToBag({rec})
DoNothingOnConflict(tbl, rec) ==
    IF \E r \in BagToSet(tbl) : SameKey(r, rec) THEN tbl
    ELSE tbl (+) SetToBag({rec})
\* INSERT INTO weather_daily (date, temperature, city) VALUES (%s, %s, %s)
\* ON CONFLICT (date, city) DO UPDATE SET temperature = EXCLUDED.temperature
UpsertRow(tbl, rec) ==
    LET hit == {r \in BagToSet(tbl) : SameKey(r, rec)}
    IN  IF hit = {} THEN tbl (+) SetToBag({rec})
        ELSE LET kept == [r \in BagToSet(tbl) \ hit |-> tbl[r]]
                 n    == BagCardinality([r \in hit |-> tbl[r]])
             IN  kept (+) [r \in {rec} |-> n]

\* execute_batch(cur, sql, records): the statement once per record, in order
\* (a page only groups statements into one round trip)
RECURSIVE execute_batch(_, _)
execute_batch(tbl, records) ==
    IF records = <<>> THEN tbl
    ELSE execute_batch(UpsertRow(tbl, Head(records)), Tail(records))

\* rows and tables the store is exercised on by itself
StoreDates == {DateOf(t) : t \in Timestamps}
StoreCities == {CITIES[1], CITIES[2]}
\* the keys of the stored rows: both dates for the first city, the first
\* date for the second
StoreKeys ==
    {key \in StoreDates \X StoreCities :
        key[2] = CITIES[1] \/ key[1] = DateOf(FirstHour)}
StoreRows ==
    {[date |-> key[1], temp |-> Rat(t, 1), city |-> key[2]] :
        key \in StoreKeys, t \in Temps}
\* every table that satisfies the unique constraint: each key absent or present
\* with one temperature
StoreTables ==
    {SetToBag({[date |-> key[1], temperature |-> Rat(f[key], 1), city |-> key[2]] :
                key \in {x \in StoreKeys : f[x] # 0}})
        : f \in [StoreKeys -> Temps \cup {0}]}

StoreInit ==
    /\ table \in StoreTables
    /\ final_df \in SeqsUpTo(StoreRows, MaxBatch)
    /\ pre = table
    /\ once = table
    /\ loads = 0

\* one complete, successful load of the batch: execute_batch then commit
StoreLoad ==
    /\ loads < MaxLoads
    /\ table' = execute_batch(table, Records(final_df))
    /\ once' = IF loads = 0 THEN table' ELSE once
    /\ loads' = loads + 1
    /\ UNCHANGED <<final_df, pre>>
    /\ UNCHANGED <<aggVars, idleVars>>

\* the next run brings another batch
StoreNewBatch ==
    /\ loads > 0
    /\ final_df' \in SeqsUpTo(StoreRows, MaxBatch)
    /\ pre' = table
    /\ once' = table
    /\ loads' = 0
    /\ UNCHANGED table
    /\ UNCHANGED <<aggVars, idleVars>>

---------------------------------------------------------------------------
(* WeatherAPIClient.fetch_city_weather / fetch_city_weather *)

None == [none |-> TRUE]

\* hours FirstHour, FirstHour + 1, ...: the hourly series of the forecast window
HourlySeries(n) == [j \in 1..n |-> FirstHour + j - 1]

ApiPayloads ==
    UNION {{Payload(HourlySeries(n), vs) : vs \in [1..n -> Temps]} : n \in 0..MaxHours}

\* a JSON body that is not the expected structure (no "hourly" object)
ErrorBody == [error |-> TRUE]

\* what requests.get does: raise (no connection), or return a response with a
\* status code and a body that parses as JSON or does not
Responses ==
    {[raised |-> TRUE, status_code |-> 0, parses |-> FALSE, body |-> ErrorBody]}
    \cup {[raised |-> FALSE, status_code |-> 500, parses |-> TRUE, body |-> ErrorBody]}
    \cup {[raised |-> FALSE, status_code |-> HTTP_OK, parses |-> FALSE, body |-> ErrorBody]}
    \cup {[raised |-> FALSE, status_code |-> HTTP_OK, parses |-> TRUE, body |-> b] :
            b \in ApiPayloads \cup {ErrorBody}}

\* the value fetch_city_weather returns when requests.get returned resp:
\* None on a non-200 status or a body that is not JSON, else the parsed body
fetch_city_weather(resp) ==
    IF resp.status_code # HTTP_OK THEN None
    ELSE IF ~resp.parses THEN None
    ELSE resp.body

---------------------------------------------------------------------------
(* The run *)

Variants == {"oop", "procedural", "dag"}

Prefixes(s) == {SubSeq(s, 1, n) : n \in 0..Len(s)}

\* psycopg2 connections open in transaction mode: nothing a statement writes
\* is visible to others before commit()
autocommit_on == TRUE
autocommit == FALSE

first_frame_only(frames) == Head(frames)
\* pd.concat(all_daily, ignore_index=True)
concat(frames) == Concat(frames)

\* the rows already in weather_daily when the run starts
InitTables ==
    {EmptyBag,
     SetToBag({[date |-> DateOf(FirstHour), temperature |-> Rat(30, 1),
                city |-> CITIES[1]]})}

Fail(step) ==
    /\ result' = "FAILED"
    /\ failedAt' = step
    /\ pc' = "done"

PipelineInit ==
    /\ variant \in Variants
    /\ cities \in (IF variant = "oop" THEN Prefixes(CITIES) ELSE {CITIES})
    /\ pc = IF variant = "dag" THEN "fetch" ELSE "config"
    /\ i = 1
    /\ raw = None
    /\ all_data = <<>>
    /\ all_daily = <<>>
    /\ final_df = <<>>
    /\ conn = "none"
    /\ table \in InitTables
    /\ txn = EmptyBag
    /\ k = 1
    /\ result = "RUNNING"
    /\ rows_written = 0
    /\ responses = <<>>
    /\ events = <<>>
    /\ pre = table
    /\ failedAt = "none"

\* load_config(config_path) in the constructor / at the top of main: the file
\* is read, or the read raises
LoadConfig ==
    /\ pc = "config"
    /\ \/ /\ pc' = "fetch"
          /\ UNCHANGED <<result, failedAt>>
       \/ Fail("config")
    /\ UNCHANGED <<aggVars, storeVars, variant, cities, i, raw, all_data, all_daily, final_df, conn,
                   table, txn, k, rows_written, responses, events, pre>>

\* run / main, loop body, first half: raw = fetch_city_weather(city, coords);
\* if raw is None: continue
FetchCity ==
    /\ pc = "fetch"
    /\ variant \in {"oop", "procedural"}
    /\ i <= Len(cities)
    /\ \E resp \in Responses :
        /\ responses' = Append(responses, resp)
        /\ events' = Append(events, <<"fetch", cities[i]>>)
        /\ IF resp.raised
           THEN /\ Fail("fetch")
                /\ UNCHANGED <<i, raw>>
           ELSE /\ UNCHANGED <<result, failedAt>>
                /\ IF fetch_city_weather(resp) = None
                   THEN /\ i' = i + 1
                        /\ pc' = "fetch"
                        /\ UNCHANGED raw
                   ELSE /\ raw' = fetch_city_weather(resp)
                        /\ pc' = "transform"
                        /\ UNCHANGED i
    /\ UNCHANGED <<aggVars, storeVars, variant, cities, all_data, all_daily, final_df, conn, table,
                   txn, k, rows_written, pre>>

\* run / main, loop body, second half: df_daily = hourly_to_daily(city, raw);
\* all_daily.append(df_daily)
TransformCity ==
    /\ pc = "transform"
    /\ variant \in {"oop", "procedural"}
    /\ events' = Append(events, <<"aggregate", cities[i]>>)
    /\ IF WellFormed(raw)
       THEN /\ all_daily' = Append(all_daily, hourly_to_daily(cities[i], raw))
            /\ i' = i + 1
            /\ pc' = "fetch"
            /\ UNCHANGED <<result, failedAt>>
       ELSE /\ Fail("transform")
            /\ UNCHANGED <<all_daily, i>>
    /\ UNCHANGED <<aggVars, storeVars, variant, cities, raw, all_data, final_df, conn, table, txn, k,
                   rows_written, responses, pre>>

\* run / main after the loop: if not all_daily: return; final_df = pd.concat(...)
AfterLoop ==
    /\ pc = "fetch"
    /\ variant \in {"oop", "procedural"}
    /\ i > Len(cities)
    /\ IF all_daily = <<>>
       THEN /\ result' = "COMPLETED"
            /\ pc' = "done"
            /\ UNCHANGED final_df
       ELSE /\ final_df' = concat(all_daily)
            /\ pc' = "connect"
            /\ UNCHANGED result
    /\ UNCHANGED <<aggVars, storeVars, variant, cities, i, raw, all_data, all_daily, conn, table, txn,
                   k, rows_written, responses, events, pre, failedAt>>

\* extract_weather, loop body: requests.get; response.raise_for_status();
\* all_data[city] = response.json().  The task returns after the last city.
ExtractWeather ==
    /\ pc = "fetch"
    /\ variant = "dag"
    /\ i <= Len(cities)
    /\ \E resp \in Responses :
        /\ responses' = Append(responses, resp)
        /\ events' = Append(events, <<"fetch", cities[i]>>)
        /\ IF resp.raised \/ resp.status_code # HTTP_OK \/ ~resp.parses
           THEN /\ Fail("fetch")
                /\ UNCHANGED <<i, all_data>>
           ELSE /\ all_data' = Append(all_data, [city |-> cities[i], data |-> resp.body])
                /\ i' = IF i = Len(cities) THEN 1 ELSE i + 1
                /\ pc' = IF i = Len(cities) THEN "transform_all" ELSE "fetch"
                /\ UNCHANGED <<result, failedAt>>
    /\ UNCHANGED <<aggVars, storeVars, variant, cities, raw, all_daily, final_df, conn, table, txn, k,
                   rows_written, pre>>

\* transform_weather, loop body over raw_data.items():
\* final_records.extend(df_daily.to_dict(orient="records")).  The task returns
\* after the last item.
TransformWeather ==
    /\ pc = "transform_all"
    /\ variant = "dag"
    /\ i <= Len(all_data)
    /\ events' = Append(events, <<"aggregate", all_data[i].city>>)
    /\ IF WellFormed(all_data[i].data)
       THEN /\ final_df' = final_df \o hourly_to_daily(all_data[i].city, all_data[i].data)
            /\ i' = i + 1
            /\ pc' = IF i = Len(all_data) THEN "connect" ELSE "transform_all"
            /\ UNCHANGED <<result, failedAt>>
       ELSE /\ Fail("transform")
            /\ UNCHANGED <<final_df, i>>
    /\ UNCHANGED <<aggVars, storeVars, variant, cities, raw, all_data, all_daily, conn, table, txn, k,
                   rows_written, responses, pre>>

\* get_db_connection(config) / psycopg2.connect(...): a connection, or the
\* call raises (dag: load_config() is read here too)
Connect ==
    /\ pc = "connect"
    /\ \/ /\ conn' = "open"
          /\ txn' = table
          /\ pc' = "insert"
          /\ events' = Append(events, <<"connect">>)
          /\ UNCHANGED <<result, failedAt>>
       \/ /\ Fail("connect")
          /\ UNCHANGED <<conn, txn, events>>
    /\ UNCHANGED <<aggVars, storeVars, variant, cities, i, raw, all_data, all_daily, final_df, table,
                   k, rows_written, responses, pre>>

\* insert_daily_weather is entered with the batch: records = df[...].values.tolist()
InsertDailyWeather ==
    /\ pc = "insert"
    /\ events' = Append(events, <<"upsert", final_df>>)
    /\ k' = 1
    /\ pc' = "execute"
    /\ UNCHANGED <<aggVars, storeVars, variant, cities, i, raw, all_data, all_daily, final_df, conn,
                   table, txn, rows_written, responses, pre, result, failedAt>>

\* execute_batch sends the statement for record k, or the statement raises
\* and the exception leaves insert_daily_weather and the run
ExecuteRow ==
    /\ pc = "execute"
    /\ k <= Len(final_df)
    /\ \/ /\ txn' = UpsertRow(txn, Records(final_df)[k])
          /\ table' = IF autocommit THEN txn' ELSE table
          /\ k' = k + 1
          /\ UNCHANGED <<pc, result, failedAt>>
       \/ /\ Fail("load")
          /\ UNCHANGED <<txn, table, k>>
    /\ UNCHANGED <<aggVars, storeVars, variant, cities, i, raw, all_data, all_daily, final_df, conn,
                   rows_written, responses, events, pre>>

\* conn.commit(): the transaction's rows become the committed table, or the
\* commit raises and nothing is committed
Commit ==
    /\ pc = "execute"
    /\ k > Len(final_df)
    /\ \/ /\ table' = txn
          /\ rows_written' = Len(final_df)
          /\ pc' = "close"
          /\ UNCHANGED <<result, failedAt>>
       \/ /\ Fail("commit")
          /\ UNCHANGED <<table, rows_written>>
    /\ UNCHANGED <<aggVars, storeVars, variant, cities, i, raw, all_data, all_daily, final_df, conn,
                   txn, k, responses, events, pre>>

\* conn.close(), the last statement of the run
Close ==
    /\ pc = "close"
    /\ conn' = "closed"
    /\ result' = "COMPLETED"
    /\ pc' = "done"
    /\ UNCHANGED <<aggVars, storeVars, variant, cities, i, raw, all_data, all_daily, final_df, table,
                   txn, k, rows_written, responses, events, pre, failedAt>>

---------------------------------------------------------------------------
(* Specifications *)

PipelineIdle ==
    /\ variant = "oop"
    /\ cities = <<>>
    /\ pc = "idle"
    /\ i = 1
    /\ raw = None
    /\ all_data = <<>>
    /\ all_daily = <<>>
    /\ conn = "none"
    /\ txn = EmptyBag
    /\ k = 1
    /\ result = "RUNNING"
    /\ rows_written = 0
    /\ responses = <<>>
    /\ events = <<>>
    /\ failedAt = "none"

AggIdle ==
    /\ agg_city = CITIES[1]
    /\ agg_data = None
    /\ agg_out = <<>>
    /\ agg_done = FALSE

StoreIdle ==
    /\ once = EmptyBag
    /\ loads = 0

\* one run of the pipeline, in any of its three variants
Init == PipelineInit /\ AggIdle /\ StoreIdle
Next ==
    \/ LoadConfig
    \/ FetchCity
    \/ TransformCity
    \/ AfterLoop
    \/ ExtractWeather
    \/ TransformWeather
    \/ Connect
    \/ InsertDailyWeather
    \/ ExecuteRow
    \/ Commit
    \/ Close
Spec == Init /\ [][Next]_vars

\* the aggregator applied to any hourly series
InitAgg ==
    /\ AggInit /\ PipelineIdle /\ StoreIdle
    /\ final_df = <<>> /\ table = EmptyBag /\ pre = EmptyBag
NextAgg == HourlyToDaily
SpecAgg == InitAgg /\ [][NextAgg]_vars

\* the store's load applied to any table and any batch, repeatedly
InitUpsert == StoreInit /\ AggIdle /\ PipelineIdle
NextUpsert == StoreLoad \/ StoreNewBatch
SpecUpsert == InitUpsert /\ [][NextUpsert]_vars

---------------------------------------------------------------------------
(* Vocabulary of the properties *)

\* timestamp t lies on calendar date d
OnDate(t, d) == d * HoursPerDay <= t /\ t < (d + 1) * HoursPerDay

RECURSIVE SumOver(_, _)
SumOver(S, f) ==
    IF S = {} THEN 0
    ELSE LET x == CHOOSE y \in S : TRUE IN f[x] + SumOver(S \ {x}, f)

KeyOf(r) == <<r.date, r.city>>
Keys(tbl) == {KeyOf(r) : r \in BagToSet(tbl)}

\* positions of the run's steps of one kind
Pos(kind) == {n \in DOMAIN events : events[n][1] = kind}

\* the fetch failed: the request raised, the status is not 200, or the body
\* is not JSON
Failed(resp) == resp.raised \/ resp.status_code # HTTP_OK \/ ~resp.parses
\* the fetch returned a payload the aggregator can read
Usable(resp) == ~Failed(resp) /\ WellFormed(resp.body)
\* the fetch succeeded: a non-empty hourly series
Succeeded(resp) == Usable(resp) /\ Len(resp.body.hourly.time) > 0

\* the daily rows of every city whose fetch returned a usable payload, in
\* city order
ExpectedBatch ==
    Concat([j \in 1..Len(responses) |->
              IF Usable(responses[j])
              THEN hourly_to_daily(cities[j], responses[j].body)
              ELSE <<>>])

\* every configured city has been fetched and aggregated, or skipped
AllCitiesProcessed ==
    /\ Len(responses) = Len(cities)
    /\ pc \notin {"config", "fetch", "transform", "transform_all"}
    /\ failedAt \notin {"config", "fetch", "transform"}

---------------------------------------------------------------------------
(* C6: for every city and every hourly series, hourly_to_daily returns     *)
(* exactly one row per distinct calendar date present in the input, every  *)
(* row carries the city, and every row's temperature is sum / count of     *)
(* exactly the readings whose timestamp lies on the row's date.            *)
C6_DailyAggregation ==
    agg_done =>
        LET ts == agg_data.hourly.time
            vs == agg_data.hourly.temperature_2m
            present == {d \in 0..(HoursPerDay + 1) : \E j \in DOMAIN ts : OnDate(ts[j], d)}
            on(d) == {j \in DOMAIN ts : OnDate(ts[j], d)}
        IN  /\ Len(agg_out) = Cardinality(present)
            /\ {agg_out[n].date : n \in DOMAIN agg_out} = present
            /\ \A n \in DOMAIN agg_out :
                 /\ agg_out[n].city = agg_city
                 /\ on(agg_out[n].date) # {}
                 /\ agg_out[n].temp.den > 0
                 /\ agg_out[n].temp.num * Cardinality(on(agg_out[n].date))
                      = SumOver(on(agg_out[n].date), vs) * agg_out[n].temp.den

\* a series of three readings, not in date order, over two dates, one of
\* whose means is not a whole number
C6_Witness ==
    /\ agg_done
    /\ Len(agg_data.hourly.time) = 3
    /\ agg_data.hourly.time[1] > agg_data.hourly.time[2]
    /\ Len(agg_out) = 2
    /\ \E n \in DOMAIN agg_out : agg_out[n].temp.den > 1

---------------------------------------------------------------------------
(* C3: after any sequence of completed loads the table holds at most one   *)
(* row per (date, city); a batch row whose key exists overwrites that      *)
(* row's temperature (no duplicate), a batch row whose key is absent       *)
(* inserts exactly one row, and rows of other keys are untouched.          *)
C3_KeyUniqueOverwrite ==
    /\ UniqueDateCity(table)
    /\ loads > 0 =>
        LET batchKeys == {KeyOf(final_df[j]) : j \in DOMAIN final_df}
            last(key) == CHOOSE j \in DOMAIN final_df :
                            /\ KeyOf(final_df[j]) = key
                            /\ \A m \in DOMAIN final_df :
                                 KeyOf(final_df[m]) = key => m <= j
        IN  /\ \A key \in batchKeys :
                 {r \in BagToSet(table) : KeyOf(r) = key}
                    = {[date |-> key[1], temperature |-> final_df[last(key)].temp,
                        city |-> key[2]]}
            /\ \A r \in BagToSet(pre) \cup BagToSet(table) :
                 KeyOf(r) \notin batchKeys => CopiesIn(r, table) = CopiesIn(r, pre)
            /\ BagCardinality(table) = Cardinality(Keys(pre) \cup batchKeys)

\* one load whose batch overwrites a stored row with another temperature and
\* inserts a row of a key that was absent
C3_Witness ==
    /\ loads = 1
    /\ \E j \in DOMAIN final_df : \E r \in BagToSet(pre) :
         KeyOf(r) = KeyOf(final_df[j]) /\ r.temperature # final_df[j].temp
    /\ \E j \in DOMAIN final_df : KeyOf(final_df[j]) \notin Keys(pre)
    /\ BagCardinality(table) = BagCardinality(pre) + 1

---------------------------------------------------------------------------
(* C2: for every table and every batch, loading the batch twice in a row   *)
(* leaves the table (rows, row count, temperatures) as loading it once.    *)
C2_UpsertIdempotent ==
    loads >= 2 =>
        /\ table = once
        /\ BagCardinality(table) = BagCardinality(once)

\* a batch of two rows that changed the table, loaded twice
C2_Witness ==
    /\ loads = 2
    /\ Len(final_df) >= 2
    /\ once # pre
    /\ BagCardinality(pre) > 0

---------------------------------------------------------------------------
(* C5: the load is all-or-nothing.  Whatever point of the load raises      *)
(* (a row write, or the commit), the committed table equals the table      *)
(* before the load; a load that commits commits the whole batch; no state  *)
(* has part of the batch committed.                                        *)
C5_BatchAtomic ==
    LET whole == execute_batch(pre, Records(final_df))
    IN  /\ table = pre \/ table = whole
        /\ table # pre => pc \in {"close", "done"} /\ failedAt = "none"
        /\ failedAt # "none" => table = pre
        /\ (pc = "close" \/ conn = "closed") => table = whole

\* a row write raised after an earlier row of the batch had been written
\* inside the transaction
C5_Witness ==
    /\ failedAt = "load"
    /\ k > 1
    /\ txn # pre
    /\ table = pre

---------------------------------------------------------------------------
(* C10, as amended: a city is aggregated only after its own fetch; the     *)
(* connection is acquired and the load entered only after every city has   *)
(* been fetched and aggregated or skipped; the load is entered at most     *)
(* once, with the rows of every city whose fetch returned a usable         *)
(* payload, and exactly once in a run that completes with such rows.       *)
C10_LoadAfterAllCities ==
    /\ \A a \in Pos("aggregate") :
         \E b \in Pos("fetch") : b < a /\ events[b][2] = events[a][2]
    /\ (conn # "none" \/ Pos("connect") # {} \/ Pos("upsert") # {})
         => AllCitiesProcessed
    /\ \A a \in Pos("connect") \cup Pos("upsert") :
         \A b \in Pos("fetch") \cup Pos("aggregate") : b < a
    /\ Cardinality(Pos("upsert")) <= 1
    /\ \A a \in Pos("upsert") : events[a][2] = ExpectedBatch
    /\ (result = "COMPLETED" /\ ExpectedBatch # <<>>)
         => Cardinality(Pos("upsert")) = 1

\* a completed class-based run over three cities, one skipped, two
\* aggregated, loaded once
C10_Witness ==
    /\ variant = "oop"
    /\ result = "COMPLETED"
    /\ Len(cities) = 3
    /\ Cardinality(Pos("aggregate")) = 2
    /\ Cardinality(Pos("upsert")) = 1
    /\ Len(final_df) > 2

\* C10 as stated: the above, and EXTRACT_ALL ends before TRANSFORM_ALL
\* begins (no city is fetched after some city has been aggregated)
C10_PhasesStrictlyOrdered ==
    /\ C10_LoadAfterAllCities
    /\ \A a \in Pos("aggregate") : \A b \in Pos("fetch") : b < a

---------------------------------------------------------------------------
(* C1 as stated: whatever cities are configured and however their fetches  *)
(* end (a non-empty series, or a failure), no failed fetch aborts the run: *)
(* every city is fetched, the run ends COMPLETED unless the load fails,    *)
(* and the batch holds rows of exactly the cities whose fetch succeeded.   *)
C1_PartialFailureTolerated ==
    ( /\ pc = "done"
      /\ failedAt \notin {"config", "connect", "load", "commit"}
      /\ \A j \in DOMAIN responses : Failed(responses[j]) \/ Succeeded(responses[j]) )
    => /\ result = "COMPLETED"
       /\ Len(responses) = Len(cities)
       /\ {final_df[n].city : n \in DOMAIN final_df}
            = {cities[j] : j \in {m \in DOMAIN responses : Succeeded(responses[m])}}

---------------------------------------------------------------------------
(* C4 as stated: a run (class-based or procedural) in which every fetch    *)
(* fails ends COMPLETED with zero rows written, never FAILED, and the      *)
(* store is neither connected to nor written.                              *)
C4_NoDataRunCompletes ==
    ( /\ variant \in {"oop", "procedural"}
      /\ pc = "done"
      /\ failedAt # "config"
      /\ \A j \in DOMAIN responses : Failed(responses[j]) )
    => /\ result = "COMPLETED"
       /\ rows_written = 0
       /\ conn = "none"
       /\ Pos("upsert") = {}
       /\ table = pre

---------------------------------------------------------------------------
(* C7 as stated: a run ends FAILED only from the load (connection, row     *)
(* write, commit) or from a configuration error before extraction; nothing *)
(* that happens while fetching or aggregating ends the run FAILED.         *)
C7_FailedOnlyFromLoadOrConfig ==
    result = "FAILED" => failedAt \in {"config", "connect", "load", "commit"}

---------------------------------------------------------------------------
(* C8 as stated: no run ends, COMPLETED or FAILED, with the connection it  *)
(* acquired still open.                                                    *)
C8_ConnectionReleased ==
    pc = "done" => conn # "open"

---------------------------------------------------------------------------
(* C9 as stated: once every city is processed and no daily row was         *)
(* produced (also when a fetch returned an empty hourly series), the run   *)
(* ends COMPLETED with zero rows written, and neither acquires the         *)
(* connection nor enters the load.                                         *)
C9_EmptyBatchNotPersisted ==
    (AllCitiesProcessed /\ ExpectedBatch = <<>>)
    => /\ conn = "none"
       /\ Pos("connect") = {}
       /\ Pos("upsert") = {}
       /\ pc = "done" => result = "COMPLETED" /\ rows_written = 0

=============================================================================
